---- MODULE Spec2Model ----
(***************************************************************************)
(* Identity and session management of the aieduthon Go backend:            *)
(* process start-up (main), the JWT middleware in front of the protected   *)
(* route group, and the Login / SignUp / Google-callback handlers over the *)
(* "users" collection.                                                     *)
(*                                                                         *)
(* The clock is read at the resolution of Unix(): one unit is one value of  *)
(* time.Now().Unix().  To keep the state space small the token lifetime     *)
(* 24*time.Hour is scaled down to 2 such units.                             *)
(***************************************************************************)
EXTENDS Integers, Sequences, FiniteSets, TLC

\* ------------------------------------------------------------------ bounds
\* last clock value reached
MaxNow == 4
\* cap on the number of documents in the users collection
MaxUsers == 2

\* ------------------------------------------------------- program constants
\* 24 * time.Hour, scaled down to 2 units of the clock
TokenLifetime == 2
\* context.WithTimeout(..., 5*time.Second) of the lookup and of the insert, in
\* seconds; a context without deadline (context.Background()) is 0
LookupTimeout == 5
InsertTimeout == 5
NoDeadline == 0
\* HTTP status codes used by the handlers
StatusOK == 200
StatusAccepted == 202
StatusSeeOther == 303
StatusBadRequest == 400
StatusUnauthorized == 401
StatusInternalServerError == 500

\* -------------------------------------------------------------- input sets
SetOrUnset(v) == {"", v}

\* every combination of the environment variables the start-up code reads
EnvAll ==
    [JWT_SECRET : SetOrUnset("k"),
     SESSION_KEY : SetOrUnset("s"),
     GOOGLE_CLIENT_ID : SetOrUnset("id"),
     GOOGLE_CLIENT_SECRET : SetOrUnset("sec"),
     GOTH_GOOGLE_CALLBACK : SetOrUnset("cb"),
     FRONTEND_URL : SetOrUnset("http://front"),
     LOGIN_URL : SetOrUnset("http://front/login")]

\* environments with the Google credentials present
EnvWithGoogle ==
    {e \in EnvAll : e.GOOGLE_CLIENT_ID # "" /\ e.GOOGLE_CLIENT_SECRET # ""
                    /\ e.GOTH_GOOGLE_CALLBACK # ""}

VARIABLES
    env,            \* process environment (os.Getenv)
    pc,             \* position of main: "start", "serving", "exited", "crashed"
    JwtKey,         \* handlers.JwtKey
    Store,          \* auth.Store
    gothicStore,    \* gothic.Store
    providers,      \* providers registered with goth.UseProviders
    MongoDataBase,  \* db.MongoDataBase: "nil" or "db"
    uniqueIndexes,  \* fields of the users collection that carry a unique index
    now,            \* time.Now().Unix()
    mw,             \* outcome of the request to the protected group that was
                    \* handled at the current instant
    users,          \* documents of the users collection, in insertion order
    wpc,            \* per worker: the handler it is in the middle of
    wreq,           \* per worker: the request of that handler
    call,           \* per worker: the store call it is waiting in
    last            \* response of the handler that completed last

vars == <<env, pc, JwtKey, Store, gothicStore, providers, MongoDataBase,
          uniqueIndexes, now, mw, users, wpc, wreq, call, last>>

startVars == <<env, pc, JwtKey, Store, gothicStore, providers, MongoDataBase,
               uniqueIndexes>>

handlerVars == <<users, wpc, wreq, call, last>>

\* ------------------------------------------------------------ session store
NilStore == [kind |-> "nil"]

\* gothic's init() installs its own cookie store before main runs
DefaultGothicStore == [kind |-> "gothic.default"]

NewCookieStore(key) ==
    [kind |-> "CookieStore", key |-> key, Path |-> "/", MaxAge |-> 86400 * 7,
     HttpOnly |-> TRUE, Secure |-> FALSE]

InitStore(store, key) ==
    IF key = "" THEN store ELSE NewCookieStore(key)

\* returns "" when auth.Store is nil, otherwise points gothic.Store at it
GothicStoreWrapper(store, gstore) ==
    IF store = NilStore
    THEN [ret |-> "", gothicStore |-> gstore]
    ELSE [ret |-> "pass", gothicStore |-> store]

\* registers the provider, then wires the store; a "" result is only logged
SetUpgoth(store, gstore) ==
    [providers |-> {"google"},
     gothicStore |-> GothicStoreWrapper(store, gstore).gothicStore]

\* ---------------------------------------------------------------- database
\* mongo.Connect or client.Ping failing leaves db.MongoDataBase nil
ConnectDatabase(dbUp) == IF dbUp THEN "db" ELSE "nil"

\* bson names of the Users fields tagged unique:"true", in struct order
UsersUniqueFields == <<"name", "email">>

\* creates one unique index per tagged field and stops at the first failure;
\* failAt is the position of the field whose CreateOne fails (Len+1: none)
CreateIndexFeild(fields, failAt) ==
    [created |-> {fields[i] : i \in {j \in 1..Len(fields) : j < failAt}},
     err |-> failAt <= Len(fields)]

\* the loop over the collections returns at the first failure: of another
\* collection visited before "users" (map order is random), of creating the
\* users collection, or of one of its indexes
RunMigrations(earlierFails, createCollFails, failAt) ==
    IF earlierFails \/ createCollFails
    THEN {}
    ELSE CreateIndexFeild(UsersUniqueFields, failAt).created

CredentialsMissing(e) ==
    e.GOOGLE_CLIENT_ID = "" \/ e.GOTH_GOOGLE_CALLBACK = ""
        \/ e.GOOGLE_CLIENT_SECRET = ""

\* ------------------------------------------------------------------- main
\* The whole start-up sequence: credential check, SetUpgoth, InitStore,
\* ConnectDatabase, RunMigrations, StartServer.
main ==
    /\ pc = "start"
    /\ \E dbUp \in BOOLEAN, earlierFails \in BOOLEAN, createCollFails \in BOOLEAN,
          failAt \in 1..(Len(UsersUniqueFields) + 1), listenOK \in BOOLEAN :
         IF CredentialsMissing(env)
         THEN /\ pc' = "exited"
              /\ UNCHANGED <<Store, gothicStore, providers, MongoDataBase,
                             uniqueIndexes>>
         ELSE LET g == SetUpgoth(Store, gothicStore)
                  s == InitStore(Store, env.SESSION_KEY)
                  d == ConnectDatabase(dbUp)
              IN  /\ providers' = g.providers
                  /\ gothicStore' = g.gothicStore
                  /\ Store' = s
                  /\ MongoDataBase' = d
                  /\ IF d = "nil"
                     THEN \* RunMigrations dereferences the nil database
                          /\ pc' = "crashed"
                          /\ UNCHANGED uniqueIndexes
                     ELSE /\ uniqueIndexes' =
                                RunMigrations(earlierFails, createCollFails, failAt)
                          /\ pc' = IF listenOK THEN "serving" ELSE "exited"
    /\ UNCHANGED <<env, JwtKey, now, mw, handlerVars>>

\* ------------------------------------------------------------------ clock
NoRequest == [op |-> "none"]

Tick ==
    /\ pc = "serving"
    /\ now < MaxNow
    /\ now' = now + 1
    /\ mw' = NoRequest
    /\ UNCHANGED <<startVars, handlerVars>>

\* ----------------------------------------------------------------- tokens
\* A compact JWT string is modelled by what jwt.Parse reads from it: whether it
\* splits into three decodable segments, the alg of its header, the key its
\* signature was computed with, and its claims.  The empty string is <<>>, any
\* other string is the one-element sequence holding its token.
TokenAlgs == {"HS256", "RS256", "none"}

\* *jwt.SigningMethodHMAC
HMACAlgs == {"HS256", "HS384", "HS512"}

SigningKeys == {"k", "other"}

\* expiry instants carried by the tokens a client presents
ExpValues == {2, 1 + TokenLifetime}

Tokens ==
    [wellformed : BOOLEAN, alg : TokenAlgs, key : SigningKeys,
     claims : [email : {"a@x"}, exp : ExpValues]]

\* one representative of the strings that do not split into three segments
PresentedTokens ==
    {t \in Tokens : ~t.wellformed =>
                        (t.alg = "none" /\ t.key = "other" /\ t.claims.exp = 2)}

EmptyString == <<>>

TokenStrings == {EmptyString} \cup {<<t>> : t \in PresentedTokens}

\* values of the Authorization header; scheme "" with the empty value is the
\* absent header
AuthHeaders ==
    {[scheme |-> "", value |-> EmptyString]}
        \cup [scheme : {"Bearer "}, value : TokenStrings]
        \cup {[scheme |-> "Basic ", value |-> EmptyString]}

\* the jwt cookie of the request
JwtCookies ==
    {[present |-> FALSE, value |-> EmptyString]}
        \cup [present : {TRUE}, value : TokenStrings]

\* ParseValid without the expiry validation of the claims
ParseValid_NoExpiry(tokenString, key, t) ==
    LET tok == tokenString[1]
    IN  /\ tok.wellformed
        /\ tok.alg \in HMACAlgs
        /\ tok.key = key

\* jwt.Parse with the key function of the middleware: the token must split into
\* segments, its method must be an HMAC one (otherwise the key function returns
\* an error), its signature must verify under JwtKey, and exp must lie after
\* the current time
ParseValid(tokenString, key, t) ==
    LET tok == tokenString[1]
    IN  /\ tok.wellformed
        /\ tok.alg \in HMACAlgs
        /\ tok.key = key
        /\ t < tok.claims.exp

\* claim keys under which the model keeps the Go type of a number:
\* [kind |-> "int", v |-> 7] is int(7)
NumberKeys == {"n"}

\* The claims as jwt.Parse decodes them from the JSON that SignedString wrote:
\* a string comes back as the same string, a number of any Go type comes back
\* as the float64 of that number
DecodedClaims(c) ==
    [k \in DOMAIN c |->
        IF k \in NumberKeys THEN [kind |-> "float64", v |-> c[k].v] ELSE c[k]]

\* copies the claim map entry by entry
mapFromClaims(c) == [k \in DOMAIN c |-> c[k]]

NoClaims == [email |-> "", exp |-> 0]

\* the extraction letting the jwt cookie stand in for an empty Bearer token
ExtractToken_CookieWhenEmpty(hdr, cookie) ==
    IF hdr.scheme = "Bearer " /\ hdr.value # EmptyString
    THEN hdr.value
    ELSE IF cookie.present THEN cookie.value ELSE EmptyString

\* the token string the middleware verifies: the rest of a "Bearer " header,
\* otherwise the jwt cookie when the request has one, otherwise ""
ExtractToken(hdr, cookie) ==
    IF hdr.scheme = "Bearer "
    THEN hdr.value
    ELSE IF cookie.present THEN cookie.value ELSE EmptyString

\* GET /api/protected: MustGet("claims") panics when the key was never set
ProtectedHandler(claimsSet) ==
    IF claimsSet THEN [status |-> StatusOK, panicked |-> FALSE]
                 ELSE [status |-> 0, panicked |-> TRUE]

\* One request through the /api group.  aborts tells whether a rejection calls
\* ctx.AbortWithStatusJSON (which stops the handler chain) or ctx.JSON followed
\* by return (after which gin goes on to the next handler of the chain).
MiddleWareChain(hdr, cookie, aborts) ==
    LET TokenString == ExtractToken(hdr, cookie)
        accepted == TokenString # EmptyString /\ ParseValid(TokenString, JwtKey, now)
        invoked == accepted \/ ~aborts
        h == ProtectedHandler(accepted)
    IN  [op |-> "protected", hdr |-> hdr, cookie |-> cookie,
         tokenString |-> TokenString,
         rejected |-> ~accepted,
         status |-> IF accepted THEN h.status ELSE StatusUnauthorized,
         claimsSet |-> accepted,
         claims |-> IF accepted
                    THEN mapFromClaims(DecodedClaims(TokenString[1].claims))
                    ELSE NoClaims,
         handlerInvoked |-> invoked,
         panicked |-> invoked /\ h.panicked]

\* revision of the middleware that rejects with ctx.JSON and return
JWTMiddleWare ==
    /\ pc = "serving"
    /\ \E hdr \in AuthHeaders, cookie \in JwtCookies :
         mw' = MiddleWareChain(hdr, cookie, FALSE)
    /\ UNCHANGED <<startVars, now, handlerVars>>

\* revision of the middleware that rejects with ctx.AbortWithStatusJSON
JWTMiddleWareAbort ==
    /\ pc = "serving"
    /\ \E hdr \in AuthHeaders, cookie \in JwtCookies :
         mw' = MiddleWareChain(hdr, cookie, TRUE)
    /\ UNCHANGED <<startVars, now, handlerVars>>

\* ---------------------------------------------------------- request data
Workers == {"w1", "w2"}
Names == {"ann", "bob"}
Emails == {"a@x", "b@x"}
Passwords == {"pw1", "pw2"}

\* a request body that does not bind, and the zero request of an idle worker
NoBody == [valid |-> FALSE, name |-> "", email |-> "", password |-> "",
           userID |-> "", race |-> "none"]

\* JSON bodies of Login; a password the body leaves out or leaves empty is ""
LoginBodies ==
    {NoBody} \cup [valid : {TRUE}, name : {""}, email : Emails,
                   password : Passwords \cup {""}, userID : {""},
                   race : {"none"}]

\* JSON bodies of SignUp; a field the body leaves out or leaves empty is ""
SignUpBodies ==
    {NoBody} \cup [valid : {TRUE}, name : Names, email : Emails \cup {""},
                   password : Passwords \cup {""}, userID : {""},
                   race : {"none"}]

\* identity assertions of the provider (goth.User); the email may be empty
GothUsers ==
    [valid : {TRUE}, name : Names, email : Emails \cup {""}, password : {""},
     userID : {"g1"}, race : {"none"}]

\* the password kept as it is
Hash_Plain(p) == p

\* hex.EncodeToString(sha256.Sum256(password)): one digest per password, never
\* the empty string and never the password itself
Hash(p) == "sha256:" \o p

\* ------------------------------------------------------- users collection
NoUser == [ID |-> 0, name |-> "", email |-> "", passwdhash |-> "",
           google_id |-> "", auth_provider |-> "", lastlogin |-> 0]

Min(S) == CHOOSE x \in S : \A y \in S : x <= y

Matching(coll, email) == {i \in 1..Len(coll) : coll[i].email = email}

\* the lookup taking every error of FindOne for "no document"
CheckUserExists_ErrAsNotFound(coll, email, storeErr) ==
    IF storeErr \/ Matching(coll, email) = {}
    THEN [err |-> FALSE, found |-> FALSE, user |-> NoUser]
    ELSE [err |-> FALSE, found |-> TRUE,
          user |-> coll[Min(Matching(coll, email))]]

\* FindOne by email: a store error, no document, or the first match
CheckUserExists(coll, email, storeErr) ==
    IF storeErr
    THEN [err |-> TRUE, found |-> FALSE, user |-> NoUser]
    ELSE IF Matching(coll, email) = {}
         THEN [err |-> FALSE, found |-> FALSE, user |-> NoUser]
         ELSE [err |-> FALSE, found |-> TRUE,
               user |-> coll[Min(Matching(coll, email))]]

\* a unique index rejects a document whose indexed field equals that of a
\* stored document
DuplicateKey(coll, doc, idx) ==
    \E f \in idx : \E i \in 1..Len(coll) : coll[i][f] = doc[f]

\* InsertOne; the store assigns the _id.  CreateUser logs a failed insert and
\* returns nothing, so the caller sees no difference.
CreateUser(coll, user, idx, storeErr) ==
    IF storeErr \/ DuplicateKey(coll, user, idx)
    THEN coll
    ELSE Append(coll, [user EXCEPT !.ID = Len(coll) + 1])

\* UpdateOne {email} $set lastlogin; a failure is logged and dropped
UpdateLoginTime(coll, email, t, storeErr) ==
    IF storeErr \/ Matching(coll, email) = {}
    THEN coll
    ELSE [coll EXCEPT ![Min(Matching(coll, email))].lastlogin = t]

\* ------------------------------------------------------------ token issue
\* the token issue that lets the entries of extra overwrite iat and exp
CreateJWTToken_ExtraWins(extra, key, t1, t2) ==
    [wellformed |-> TRUE, alg |-> "HS256", key |-> key,
     claims |-> [k \in (DOMAIN extra) \cup {"iat", "exp"} |->
                    IF k \in DOMAIN extra THEN extra[k]
                    ELSE IF k = "iat" THEN t1
                    ELSE t2 + TokenLifetime]]

\* copies extra, then sets iat and exp from two reads of the clock and signs
\* with HS256 under JwtKey
CreateJWTToken(extra, key, t1, t2) ==
    [wellformed |-> TRUE, alg |-> "HS256", key |-> key,
     claims |-> [k \in (DOMAIN extra) \cup {"iat", "exp"} |->
                    IF k = "iat" THEN t1
                    ELSE IF k = "exp" THEN t2 + TokenLifetime
                    ELSE extra[k]]]

\* c.SetCookie("jwt", token, int(JwtExp), "/", "localhost", false, true) with
\* JwtExp = time.Now().Add(24 * time.Hour).Unix()
JwtCookie(tok, t) ==
    [name |-> "jwt", value |-> tok, maxAge |-> t + TokenLifetime, path |-> "/",
     domain |-> "localhost", secure |-> FALSE, httpOnly |-> TRUE]

\* ---------------------------------------------------------------- responses
\* token, cookie and marker are sequences of length 0 (absent) or 1; storeErr
\* records that the store was unreachable when the handler looked the user up,
\* updateErr that the UpdateOne of the login time failed
Response(op, req, status, msg) ==
    [op |-> op, req |-> req, status |-> status, msg |-> msg,
     token |-> <<>>, cookie |-> <<>>, marker |-> <<>>,
     lookedUp |-> FALSE, storeErr |-> FALSE, found |-> FALSE,
     createCalled |-> FALSE, updateErr |-> FALSE, panicked |-> FALSE]

NoResponse == Response("none", NoBody, 0, "")

\* a binding that answers with the status of the c.JSON call that follows it
BindFailure_Status500(op, req) ==
    Response(op, req, StatusInternalServerError, "Internal server error")

\* c.BindJSON aborts with status 400 and writes the header at once; the
\* c.JSON(500, ...) that follows only adds its body
BindFailure(op, req) == Response(op, req, StatusBadRequest, "Internal server error")

\* the format checks of the login.SignUp binding: email and password present
SignUpFormatOK(req) == req.email # "" /\ req.password # ""

\* c.BindJSON(&signup): the body decodes and passes the checks of the binding
BindSignUp(req) == req.valid /\ SignUpFormatOK(req)

\* ------------------------------------------------------------------- Login
\* Login without the comparison of the password hash
Login_NoHashCheck(coll, req, key, t, lookupFails, updateFails) ==
    IF ~req.valid
    THEN [users |-> coll, resp |-> BindFailure("Login", req)]
    ELSE LET c == CheckUserExists(coll, req.email, lookupFails)
             looked == [Response("Login", req, 0, "") EXCEPT
                            !.lookedUp = TRUE, !.storeErr = lookupFails,
                            !.found = c.found]
         IN  IF c.err
             THEN [users |-> coll,
                   resp |-> [looked EXCEPT !.status = StatusInternalServerError,
                                           !.msg = "Internal Server Error"]]
             ELSE IF ~c.found
             THEN [users |-> coll,
                   resp |-> [looked EXCEPT !.status = StatusBadRequest,
                                           !.msg = "User not found"]]
             ELSE LET tok == CreateJWTToken(
                                [Name |-> c.user.name, ID |-> c.user.ID,
                                 email |-> c.user.email], key, t, t)
                  IN  [users |-> UpdateLoginTime(coll, req.email, t, updateFails),
                       resp |-> [looked EXCEPT
                                    !.status = StatusAccepted,
                                    !.msg = "Successfully LoggedIn",
                                    !.updateErr = updateFails,
                                    !.token = <<tok>>,
                                    !.cookie = <<JwtCookie(tok, t)>>]]

\* Login answering 500 when the update of the login time fails
Login_UpdateFailureFatal(coll, req, key, t, lookupFails, updateFails) ==
    IF ~req.valid
    THEN [users |-> coll, resp |-> BindFailure("Login", req)]
    ELSE LET c == CheckUserExists(coll, req.email, lookupFails)
             looked == [Response("Login", req, 0, "") EXCEPT
                            !.lookedUp = TRUE, !.storeErr = lookupFails,
                            !.found = c.found]
         IN  IF c.err
             THEN [users |-> coll,
                   resp |-> [looked EXCEPT !.status = StatusInternalServerError,
                                           !.msg = "Internal Server Error"]]
             ELSE IF ~c.found
             THEN [users |-> coll,
                   resp |-> [looked EXCEPT !.status = StatusBadRequest,
                                           !.msg = "User not found"]]
             ELSE IF Hash(req.password) # c.user.passwdhash
             THEN [users |-> coll,
                   resp |-> [looked EXCEPT !.status = StatusBadRequest,
                                           !.msg = "Password is incorrect"]]
             ELSE IF updateFails
             THEN [users |-> coll,
                   resp |-> [looked EXCEPT !.status = StatusInternalServerError,
                                           !.msg = "Internal Server error",
                                           !.updateErr = TRUE]]
             ELSE LET tok == CreateJWTToken(
                                [Name |-> c.user.name, ID |-> c.user.ID,
                                 email |-> c.user.email], key, t, t)
                  IN  [users |-> UpdateLoginTime(coll, req.email, t, updateFails),
                       resp |-> [looked EXCEPT
                                    !.status = StatusAccepted,
                                    !.msg = "Successfully LoggedIn",
                                    !.updateErr = updateFails,
                                    !.token = <<tok>>,
                                    !.cookie = <<JwtCookie(tok, t)>>]]

\* The Login handler: bind the body, look the user up, compare the hash of the
\* supplied password with the stored one, issue the token, update the login
\* time, set the jwt cookie.
LoginHandler(coll, req, key, t, lookupFails, updateFails) ==
    IF ~req.valid
    THEN [users |-> coll, resp |-> BindFailure("Login", req)]
    ELSE LET c == CheckUserExists(coll, req.email, lookupFails)
             looked == [Response("Login", req, 0, "") EXCEPT
                            !.lookedUp = TRUE, !.storeErr = lookupFails,
                            !.found = c.found]
         IN  IF c.err
             THEN [users |-> coll,
                   resp |-> [looked EXCEPT !.status = StatusInternalServerError,
                                           !.msg = "Internal Server Error"]]
             ELSE IF ~c.found
             THEN [users |-> coll,
                   resp |-> [looked EXCEPT !.status = StatusBadRequest,
                                           !.msg = "User not found"]]
             ELSE IF Hash(req.password) # c.user.passwdhash
             THEN [users |-> coll,
                   resp |-> [looked EXCEPT !.status = StatusBadRequest,
                                           !.msg = "Password is incorrect"]]
             ELSE LET tok == CreateJWTToken(
                                [Name |-> c.user.name, ID |-> c.user.ID,
                                 email |-> c.user.email], key, t, t)
                  IN  [users |-> UpdateLoginTime(coll, req.email, t, updateFails),
                       resp |-> [looked EXCEPT
                                    !.status = StatusAccepted,
                                    !.msg = "Successfully LoggedIn",
                                    !.updateErr = updateFails,
                                    !.token = <<tok>>,
                                    !.cookie = <<JwtCookie(tok, t)>>]]

Login ==
    /\ pc = "serving"
    /\ \E req \in LoginBodies, lookupFails \in BOOLEAN, updateFails \in BOOLEAN :
         LET r == LoginHandler(users, req, JwtKey, now, lookupFails, updateFails)
         IN  /\ users' = r.users
             /\ last' = r.resp
    /\ UNCHANGED <<startVars, now, mw, wpc, wreq, call>>

\* ------------------------------------------------------------------ SignUp
LocalUser(req, t) ==
    [ID |-> 0, name |-> req.name, email |-> req.email,
     passwdhash |-> Hash(req.password), google_id |-> "",
     auth_provider |-> "Local", lastlogin |-> t]

\* the end of SignUp: 500 when LOGIN_URL is unset, otherwise the redirect
SignUpRedirect(resp, loginURL) ==
    IF loginURL = ""
    THEN [resp EXCEPT !.status = StatusInternalServerError,
                      !.msg = "Internal server error"]
    ELSE [resp EXCEPT !.status = StatusSeeOther, !.msg = loginURL]

\* SignUp answering an existing email with a conflict
SignUpExisting_Conflict(looked, loginURL) ==
    [looked EXCEPT !.status = 409, !.msg = "User already exists"]

\* SignUp for an email that has a document: the else branch only logs, and
\* the handler ends as for a new user
SignUpExisting(looked, loginURL) == SignUpRedirect(looked, loginURL)

\* history of a race: "racing" while another SignUp for the same email is
\* between its lookup and its insert, "peerDone" once that one has completed,
\* "bothDone" in the response of the one that completes second
RaceAtLookup(w, req) ==
    IF \E v \in (DOMAIN wpc) \ {w} : wpc[v] = "SignUp" /\ wreq[v].email = req.email
    THEN "racing" ELSE "none"

\* SignUp up to and including the lookup; with no document found the handler
\* goes on to CreateUser in a later step
SignUp(w) ==
    /\ pc = "serving"
    /\ wpc[w] = "idle"
    /\ \E req \in SignUpBodies, lookupFails \in BOOLEAN :
         IF ~BindSignUp(req)
         THEN /\ last' = BindFailure("SignUp", req)
              /\ UNCHANGED <<wpc, wreq>>
         ELSE LET c == CheckUserExists(users, req.email, lookupFails)
                  looked == [Response("SignUp", req, 0, "") EXCEPT
                                !.lookedUp = TRUE, !.storeErr = lookupFails,
                                !.found = c.found]
              IN  IF c.err
                  THEN /\ last' = [looked EXCEPT
                                      !.status = StatusInternalServerError,
                                      !.msg = "Internal Server Error"]
                       /\ UNCHANGED <<wpc, wreq>>
                  ELSE IF c.found
                  THEN /\ last' = SignUpExisting(looked, env.LOGIN_URL)
                       /\ UNCHANGED <<wpc, wreq>>
                  ELSE /\ wpc' = [wpc EXCEPT ![w] = "SignUp"]
                       /\ wreq' = [v \in DOMAIN wpc |->
                                    IF v = w
                                    THEN [req EXCEPT !.race = RaceAtLookup(w, req)]
                                    ELSE IF wpc[v] = "SignUp"
                                            /\ wreq[v].email = req.email
                                         THEN [wreq[v] EXCEPT !.race = "racing"]
                                         ELSE wreq[v]]
                       /\ UNCHANGED last
    /\ UNCHANGED <<startVars, now, mw, users, call>>

\* SignUp from CreateUser to the response
SignUpCreateUser(w) ==
    /\ wpc[w] = "SignUp"
    /\ \E insertFails \in BOOLEAN :
         LET req == wreq[w]
             coll == CreateUser(users, LocalUser(req, now), uniqueIndexes, insertFails)
             done == [Response("SignUp",
                               [req EXCEPT !.race = IF req.race = "peerDone"
                                                    THEN "bothDone" ELSE "none"],
                               0, "")
                        EXCEPT !.lookedUp = TRUE, !.createCalled = TRUE]
         IN  /\ Len(coll) <= MaxUsers
             /\ users' = coll
             /\ last' = SignUpRedirect(done, env.LOGIN_URL)
             /\ wpc' = [wpc EXCEPT ![w] = "idle"]
             /\ wreq' = [v \in DOMAIN wpc |->
                           IF v = w THEN NoBody
                           ELSE IF wreq[v].race = "racing"
                                   /\ wreq[v].email = req.email
                                THEN [wreq[v] EXCEPT !.race = "peerDone"]
                                ELSE wreq[v]]
    /\ UNCHANGED <<startVars, now, mw, call>>

\* -------------------------------------------------- GoogleCallBackFunction
GoogleUser(user, t) ==
    [ID |-> 0, name |-> user.name, email |-> user.email, passwdhash |-> "",
     google_id |-> user.userID, auth_provider |-> "google", lastlogin |-> t]

\* the callback without the check of the asserted email
CallBackEarly_NoEmailCheck(user, authFails) ==
    IF authFails
    THEN [done |-> TRUE,
          resp |-> Response("Callback", NoBody, StatusInternalServerError, "err")]
    ELSE [done |-> FALSE, resp |-> Response("Callback", user, 0, "")]

\* the callback before it touches the store: gothic.CompleteUserAuth, then the
\* check that the assertion carries an email
CallBackEarly(user, authFails) ==
    IF authFails
    THEN [done |-> TRUE,
          resp |-> Response("Callback", NoBody, StatusInternalServerError, "err")]
    ELSE IF user.email = ""
    THEN [done |-> TRUE,
          resp |-> Response("Callback", user, StatusBadRequest,
                            "Please provide a valid email!!")]
    ELSE [done |-> FALSE, resp |-> Response("Callback", user, 0, "")]

\* the callback after the user was found or created: issue the token, write
\* the email into the session (auth.Store.Get panics on a nil store), check
\* FRONTEND_URL, set the jwt cookie, redirect to <FRONTEND_URL>/home
CallBackFinish(resp, user, store, frontendURL, key, t) ==
    LET tok == CreateJWTToken([name |-> user.name, ID |-> user.userID,
                               email |-> user.email], key, t, t)
        issued == [resp EXCEPT !.token = <<tok>>]
    IN  IF store = NilStore
        THEN [issued EXCEPT !.panicked = TRUE]
        ELSE IF frontendURL = ""
        THEN [issued EXCEPT !.marker = <<user.email>>,
                            !.status = StatusInternalServerError,
                            !.msg = "Internal Server error"]
        ELSE [issued EXCEPT !.marker = <<user.email>>,
                            !.cookie = <<JwtCookie(tok, t)>>,
                            !.status = StatusSeeOther,
                            !.msg = "/home"]

\* the callback up to and including the lookup; with no document found the
\* handler goes on to CreateUser in a later step
GoogleCallBackFunction(w) ==
    /\ pc = "serving"
    /\ wpc[w] = "idle"
    /\ \E user \in GothUsers, authFails \in BOOLEAN, lookupFails \in BOOLEAN :
         LET e == CallBackEarly(user, authFails)
         IN  IF e.done
             THEN /\ last' = e.resp
                  /\ UNCHANGED <<wpc, wreq>>
             ELSE LET c == CheckUserExists(users, user.email, lookupFails)
                      looked == [e.resp EXCEPT !.lookedUp = TRUE,
                                               !.storeErr = lookupFails,
                                               !.found = c.found]
                  IN  IF c.err
                      THEN /\ last' = [looked EXCEPT
                                          !.status = StatusInternalServerError,
                                          !.msg = "Internal Server Error"]
                           /\ UNCHANGED <<wpc, wreq>>
                      ELSE IF c.found
                      THEN /\ last' = CallBackFinish(looked, user, Store,
                                                     env.FRONTEND_URL, JwtKey, now)
                           /\ UNCHANGED <<wpc, wreq>>
                      ELSE /\ wpc' = [wpc EXCEPT ![w] = "Callback"]
                           /\ wreq' = [wreq EXCEPT ![w] = user]
                           /\ UNCHANGED last
    /\ UNCHANGED <<startVars, now, mw, users, call>>

\* the callback from CreateUser to the response
CallBackCreateUser(w) ==
    /\ wpc[w] = "Callback"
    /\ \E insertFails \in BOOLEAN :
         LET user == wreq[w]
             coll == CreateUser(users, GoogleUser(user, now), uniqueIndexes,
                                insertFails)
             created == [Response("Callback", user, 0, "")
                           EXCEPT !.lookedUp = TRUE, !.createCalled = TRUE]
         IN  /\ Len(coll) <= MaxUsers
             /\ users' = coll
             /\ last' = CallBackFinish(created, user, Store, env.FRONTEND_URL,
                                       JwtKey, now)
             /\ wpc' = [wpc EXCEPT ![w] = "idle"]
             /\ wreq' = [wreq EXCEPT ![w] = NoBody]
    /\ UNCHANGED <<startVars, now, mw, call>>

\* ------------------------------------------------------------- store calls
\* The handlers seen as the sequence of their calls to the store, each of which
\* blocks until the store answers or the deadline of its context passes.
NoCall == [name |-> "", timeout |-> NoDeadline]

\* the context each call is issued under
StoreCall(name) ==
    [name |-> name,
     timeout |-> CASE name = "CheckUserExists" -> LookupTimeout
                   [] name = "CreateUser" -> InsertTimeout
                   [] name = "UpdateLoginTime" -> NoDeadline]

\* what a call can return
CallResults(name) ==
    IF name = "CheckUserExists" THEN {"err", "found", "notfound"} ELSE {"err", "ok"}

\* What the handler op does when its call name returns result: the next call
\* ("" when the handler answers) and the status it answers with.  A Login that
\* found the user goes on to UpdateLoginTime only when the password matched.
AfterCall(op, name, result, passwordOK) ==
    IF name = "CheckUserExists"
    THEN IF result = "err"
         THEN [next |-> "", status |-> StatusInternalServerError]
         ELSE IF op = "Login"
         THEN IF result = "found" /\ passwordOK
              THEN [next |-> "UpdateLoginTime", status |-> 0]
              ELSE [next |-> "", status |-> StatusBadRequest]
         ELSE IF result = "found"
              THEN [next |-> "", status |-> StatusSeeOther]
              ELSE [next |-> "CreateUser", status |-> 0]
    ELSE IF name = "CreateUser"
    THEN \* the result of the insert is not looked at
         [next |-> "", status |-> StatusSeeOther]
    ELSE \* UpdateLoginTime: the result of the update is not looked at
         [next |-> "", status |-> StatusAccepted]

\* a request arrives and the handler issues its lookup
BeginRequest(w) ==
    /\ pc = "serving"
    /\ wpc[w] = "idle"
    /\ \E op \in {"Login", "SignUp", "Callback"} :
         /\ wpc' = [wpc EXCEPT ![w] = op]
         /\ call' = [call EXCEPT ![w] = StoreCall("CheckUserExists")]
    /\ UNCHANGED <<startVars, now, mw, users, wreq, last>>

\* the handler of w goes on after its pending call returned result
Resume(w, result, passwordOK) ==
    LET a == AfterCall(wpc[w], call[w].name, result, passwordOK)
    IN  IF a.next = ""
        THEN /\ last' = Response(wpc[w], NoBody, a.status, call[w].name)
             /\ wpc' = [wpc EXCEPT ![w] = "idle"]
             /\ call' = [call EXCEPT ![w] = NoCall]
        ELSE /\ call' = [call EXCEPT ![w] = StoreCall(a.next)]
             /\ UNCHANGED <<wpc, last>>

\* the store answers the pending call
StoreAnswers(w) ==
    /\ call[w] # NoCall
    /\ \E result \in CallResults(call[w].name), passwordOK \in BOOLEAN :
         Resume(w, result, passwordOK)
    /\ UNCHANGED <<startVars, now, mw, users, wreq>>

\* the deadline of the pending call's context passes: the driver returns
\* context.DeadlineExceeded
DeadlineExceeded(w) ==
    /\ call[w] # NoCall
    /\ call[w].timeout # NoDeadline
    /\ Resume(w, "err", FALSE)
    /\ UNCHANGED <<startVars, now, mw, users, wreq>>

\* ------------------------------------------------------------ /auth/status
\* The "session" of a request, as the cookie store decodes it: the value of
\* its "email" key ("" when the request has no session cookie or one that does
\* not verify) and the status of the response that delivered the cookie.
NoSession == [email |-> "", from |-> 0]

\* the sessions a client can present: none, or the one the last callback wrote
Sessions ==
    {NoSession} \cup
        (IF last.op = "Callback" /\ last.marker # <<>>
         THEN {[email |-> last.marker[1], from |-> last.status]}
         ELSE {})

\* GET /auth/status: auth.Store.Get panics on a nil store; otherwise the answer
\* is 200 with logged_in true and the email when the session holds a non-empty
\* "email" string, and logged_in false when it does not
StatusHandler(store, session, jwt) ==
    IF store = NilStore
    THEN [op |-> "status", session |-> session, jwt |-> jwt, status |-> 0,
          loggedIn |-> FALSE, email |-> "", panicked |-> TRUE]
    ELSE [op |-> "status", session |-> session, jwt |-> jwt,
          status |-> StatusOK, loggedIn |-> session.email # "",
          email |-> session.email, panicked |-> FALSE]

\* jwt: whether the request carries a valid jwt cookie
AuthStatus ==
    /\ pc = "serving"
    /\ \E session \in Sessions, jwt \in BOOLEAN :
         mw' = StatusHandler(Store, session, jwt)
    /\ UNCHANGED <<startVars, now, handlerVars>>

InitWith(E, W) ==
    /\ env \in E
    /\ pc = "start"
    /\ JwtKey = env.JWT_SECRET
    /\ Store = NilStore
    /\ gothicStore = DefaultGothicStore
    /\ providers = {}
    /\ MongoDataBase = "nil"
    /\ uniqueIndexes = {}
    /\ now = 1
    /\ mw = NoRequest
    /\ users = <<>>
    /\ wpc = [w \in W |-> "idle"]
    /\ wreq = [w \in W |-> NoBody]
    /\ call = [w \in W |-> NoCall]
    /\ last = NoResponse

InitStartup == InitWith(EnvAll, {"w1"})

NextStartup == main

SpecStartup == InitStartup /\ [][NextStartup]_vars
\* ------------------------------------------------ middleware specification
EnvMW ==
    {e \in EnvWithGoogle : e.SESSION_KEY # "" /\ e.FRONTEND_URL # ""
                           /\ e.LOGIN_URL # ""}

InitMW == InitWith(EnvMW, {"w1"})

NextMW == main \/ Tick \/ JWTMiddleWare \/ JWTMiddleWareAbort

SpecMW == InitMW /\ [][NextMW]_vars
\* ------------------------------------------------ token issue specification
\* claim maps passed to CreateJWTToken: the ones the handlers build, and one
\* that also brings its own iat and exp and an int entry
ExtraClaims ==
    [name : Names, ID : {"g1"}, email : Emails]
        \cup {[name |-> "ann", ID |-> "g1", email |-> "a@x", iat |-> 0,
                exp |-> MaxNow + TokenLifetime + 2,
                n |-> [kind |-> "int", v |-> 7]]}

\* One call of CreateJWTToken.  iat and exp come from two reads of the clock;
\* the clock may move on by one unit between the first read and the second.
\* The response keeps the argument and the two values read.
IssueToken ==
    /\ pc = "serving"
    /\ \E extra \in ExtraClaims, advance \in {0, 1} :
         /\ now + advance <= MaxNow
         /\ now' = now + advance
         /\ last' = [Response("CreateJWTToken",
                               [extra |-> extra, t1 |-> now, t2 |-> now + advance],
                               0, "") EXCEPT
                        !.token = <<CreateJWTToken(extra, JwtKey, now, now + advance)>>]
    /\ mw' = NoRequest
    /\ UNCHANGED <<startVars, users, wpc, wreq, call>>

\* a request to the protected group that presents the token issued last in
\* its Authorization header
PresentIssuedToken ==
    /\ pc = "serving"
    /\ last.op = "CreateJWTToken"
    /\ \E aborts \in BOOLEAN :
         mw' = MiddleWareChain([scheme |-> "Bearer ", value |-> last.token],
                               [present |-> FALSE, value |-> EmptyString], aborts)
    /\ UNCHANGED <<startVars, now, handlerVars>>

InitToken == InitWith(EnvMW, {"w1"})

NextToken == main \/ Tick \/ IssueToken \/ PresentIssuedToken

SpecToken == InitToken /\ [][NextToken]_vars
\* --------------------------------------------------- handler specification
\* environments with the signing key and the Google credentials present and
\* at most one of SESSION_KEY, FRONTEND_URL and LOGIN_URL unset
EnvHandlers ==
    {e \in EnvWithGoogle :
        /\ e.JWT_SECRET # ""
        /\ Cardinality({k \in {"SESSION_KEY", "FRONTEND_URL", "LOGIN_URL"} :
                          e[k] = ""}) <= 1}

Init == InitWith(EnvHandlers, {"w1"})

Next ==
    \/ main
    \/ Login
    \/ \E w \in DOMAIN wpc : SignUp(w)
    \/ \E w \in DOMAIN wpc : SignUpCreateUser(w)
    \/ \E w \in DOMAIN wpc : GoogleCallBackFunction(w)
    \/ \E w \in DOMAIN wpc : CallBackCreateUser(w)

\* one request in flight at a time
Spec == Init /\ [][Next]_vars

\* ------------------------------------------------- callback specification
\* the callback and the status route do not read LOGIN_URL
EnvCallback == {e \in EnvHandlers : e.LOGIN_URL # ""}

InitCallback == InitWith(EnvCallback, {"w1"})

NextCallback ==
    \/ main
    \/ Tick
    \/ \E w \in DOMAIN wpc : GoogleCallBackFunction(w)
    \/ \E w \in DOMAIN wpc : CallBackCreateUser(w)
    \/ AuthStatus

\* Google sign-ins and status requests over time
SpecCallback == InitCallback /\ [][NextCallback]_vars

\* ------------------------------------------ concurrent SignUp specification
EnvAllSet ==
    {e \in EnvHandlers : e.SESSION_KEY # "" /\ e.FRONTEND_URL # ""
                          /\ e.LOGIN_URL # ""}

InitRace == InitWith(EnvAllSet, Workers)

NextRace ==
    \/ main
    \/ \E w \in DOMAIN wpc : SignUp(w)
    \/ \E w \in DOMAIN wpc : SignUpCreateUser(w)

\* two SignUp requests in flight at a time
SpecRace == InitRace /\ [][NextRace]_vars

\* ----------------------------------------------- store call specification
InitStall == InitWith(EnvAllSet, Workers)

NextStall ==
    \/ main
    \/ \E w \in DOMAIN wpc : BeginRequest(w)
    \/ \E w \in DOMAIN wpc : StoreAnswers(w)
    \/ \E w \in DOMAIN wpc : DeadlineExceeded(w)

\* requests waiting for a store that may never answer
SpecStall == InitStall /\ [][NextStall]_vars

\* =================================================================== claims

\* C1: a request to the protected group whose token is missing or fails
\* verification is answered 401 and the route's handler is not invoked.
C1_RejectedNeverReachesHandler ==
    (mw.op = "protected" /\ mw.rejected)
        => (mw.status = StatusUnauthorized /\ ~mw.handlerInvoked)

C3_LoginOnlyWithMatchingHash ==
    [][(last' # last /\ last'.op = "Login") =>
          IF last'.status = StatusAccepted
          THEN /\ last'.token # <<>>
               /\ last'.cookie # <<>>
               /\ last'.cookie[1].name = "jwt"
               /\ last'.cookie[1].value = last'.token[1]
               /\ \E i \in 1..Len(users) :
                    /\ users[i].email = last'.req.email
                    /\ users[i].passwdhash = Hash(last'.req.password)
                    /\ last'.token[1].claims.email = users[i].email
                    /\ last'.token[1].claims.ID = users[i].ID
          ELSE /\ last'.token = <<>>
               /\ last'.cookie = <<>>
               /\ users' = users
               /\ last'.status \in {StatusBadRequest, StatusUnauthorized,
                                    StatusInternalServerError}]_vars

\* a Login with the right password has completed
C3_Witness ==
    /\ last.op = "Login"
    /\ last.status = StatusAccepted
    /\ last.token # <<>>
    /\ \E i \in 1..Len(users) : users[i].email = last.req.email

\* C4: a Login with a wrong password for an existing email and a Login with an
\* email that has no document get the same status and the same message.
C4_UniformLoginFailure ==
    \A r1 \in LoginBodies, r2 \in LoginBodies :
        LET wrongPassword ==
                /\ r1.valid
                /\ Matching(users, r1.email) # {}
                /\ \A i \in Matching(users, r1.email) :
                      users[i].passwdhash # Hash(r1.password)
            unknownEmail == r2.valid /\ Matching(users, r2.email) = {}
            a == LoginHandler(users, r1, JwtKey, now, FALSE, FALSE).resp
            b == LoginHandler(users, r2, JwtKey, now, FALSE, FALSE).resp
        IN  (pc = "serving" /\ wrongPassword /\ unknownEmail)
                => (a.status = b.status /\ a.msg = b.msg)

\* C5: after a SignUp for an email without a document that answered with the
\* redirect, exactly one document carries that email; it is a Local one whose
\* passwdhash is the hash of the password and no field of it is the password.
C5_FreshSignUpCreatesOneLocalUser ==
    (last.op = "SignUp" /\ last.createCalled /\ last.status = StatusSeeOther)
        => /\ Cardinality(Matching(users, last.req.email)) = 1
           /\ \A i \in Matching(users, last.req.email) :
                /\ users[i].auth_provider = "Local"
                /\ users[i].passwdhash = Hash(last.req.password)
                /\ \A f \in {"name", "email", "passwdhash", "google_id",
                             "auth_provider"} :
                      users[i][f] # last.req.password

\* C6: when two SignUp requests for one email that were in flight together
\* have both completed, exactly one document carries that email.
C6_ConcurrentSignUpsOneUser ==
    (last.op = "SignUp" /\ last.req.race = "bothDone")
        => Cardinality(Matching(users, last.req.email)) = 1

\* C7: a callback whose assertion has an empty email is answered with a
\* 400-class status; it neither looks up nor creates a user, issues no token,
\* writes no session marker and sets no jwt cookie.
C7_EmptyEmailCallbackRejected ==
    [][(last' # last /\ last'.op = "Callback" /\ last'.req.valid
            /\ last'.req.email = "") =>
          /\ last'.status >= 400 /\ last'.status < 500
          /\ ~last'.lookedUp
          /\ ~last'.createCalled
          /\ users' = users
          /\ last'.token = <<>>
          /\ last'.marker = <<>>
          /\ last'.cookie = <<>>]_vars

\* a callback with an empty asserted email has been answered
C7_Witness ==
    /\ last.op = "Callback"
    /\ last.req.valid
    /\ last.req.email = ""
    /\ last.status = StatusBadRequest

\* C8: the server never accepts requests after a provider registration that
\* found the session store absent.
C8_RegistrationWithoutStoreIsFatal ==
    pc = "serving" => ~("google" \in providers /\ gothicStore = DefaultGothicStore)

\* C9: whenever the server accepts requests, gothic.Store is the initialized
\* auth.Store.
C9_GothicStoreIsAuthStore ==
    pc = "serving" => (Store # NilStore /\ gothicStore = Store)

\* C10: the server never accepts requests with an empty signing key or with a
\* missing OAuth credential.
C10_NoServingWithoutSecrets ==
    pc = "serving" => (JwtKey # "" /\ ~CredentialsMissing(env))

\* C11: a request whose handler panicked is answered 500 and the server goes
\* on accepting requests.
C11_PanicAnswered500 ==
    last.panicked => (last.status = StatusInternalServerError /\ pc = "serving")

\* C12: every token produced by CreateJWTToken has exp - iat equal to the
\* token lifetime, also when the clock moves between the two reads.
C12_LifetimeExactly24h ==
    (last.op = "CreateJWTToken" /\ last.token # <<>>)
        => last.token[1].claims.exp - last.token[1].claims.iat = TokenLifetime

\* C13: a token issued at time iat under the configured key is accepted by the
\* middleware exactly at the times before iat + lifetime.
C13_AcceptedExactlyBeforeExpiry ==
    (mw.op = "protected" /\ last.op = "CreateJWTToken"
        /\ mw.tokenString = last.token)
        => (mw.claimsSet <=> now < last.token[1].claims.iat + TokenLifetime)

C18_StoreErrorIs500 ==
    [][(last' # last /\ last'.op \in {"Login", "SignUp", "Callback"}) =>
          /\ last'.storeErr =>
                /\ last'.status = StatusInternalServerError
                /\ users' = users
                /\ wpc' = wpc
                /\ ~last'.createCalled
                /\ last'.token = <<>>
                /\ last'.marker = <<>>
                /\ last'.cookie = <<>>
          /\ (last'.op = "Login" /\ last'.lookedUp /\ ~last'.storeErr
                /\ ~last'.found) =>
                last'.status = StatusBadRequest]_vars

\* a callback was answered 500 because the lookup could not reach the store
C18_Witness ==
    /\ last.op = "Callback"
    /\ last.lookedUp
    /\ last.storeErr
    /\ last.status = StatusInternalServerError

\* C16: an answered GET /auth/status reports logged-in with email e exactly
\* when the session of the request carries the marker email = e written by a
\* callback that completed with the redirect, whatever jwt the request has.
C16_StatusFollowsCompletedCallback ==
    (mw.op = "status" /\ ~mw.panicked) =>
        /\ mw.status = StatusOK
        /\ mw.loggedIn <=>
              (mw.session.email # "" /\ mw.session.from = StatusSeeOther)
        /\ mw.loggedIn => mw.email = mw.session.email

\* C17: the jwt cookie set by Login and by the callback has max-age equal to
\* the token lifetime, is httpOnly and has path "/".
C17_CookieMaxAgeIsLifetime ==
    last.cookie # <<>> =>
        /\ last.cookie[1].name = "jwt"
        /\ last.cookie[1].maxAge = TokenLifetime
        /\ last.cookie[1].httpOnly
        /\ last.cookie[1].path = "/"

\* C19: no two documents of the collection share an email; a Local document
\* has a passwdhash and no google_id, a google document has a google_id and no
\* passwdhash, and there is no other kind.
C19_UniqueEmailAndOneCredential ==
    /\ \A i, j \in 1..Len(users) : users[i].email = users[j].email => i = j
    /\ \A i \in 1..Len(users) :
          \/ /\ users[i].auth_provider = "Local"
             /\ users[i].passwdhash # ""
             /\ users[i].google_id = ""
          \/ /\ users[i].auth_provider = "google"
             /\ users[i].google_id # ""
             /\ users[i].passwdhash = ""

\* C20: after a callback for an existing user that completed with the
\* redirect, that user's lastlogin is the time of the callback.
C20_CallbackOverwritesLastLogin ==
    [][(last' # last /\ last'.op = "Callback" /\ last'.found
            /\ last'.status = StatusSeeOther) =>
          \A i \in Matching(users', last'.req.email) :
              users'[i].lastlogin = now]_vars

\* C21: whenever the server accepts requests the database is connected and
\* the users collection has its unique index on email.
C21_ServingImpliesEmailIndex ==
    pc = "serving" => (MongoDataBase = "db" /\ "email" \in uniqueIndexes)

\* C22: the server never accepts requests with auth.Store nil, so neither
\* /auth/status nor the callback runs into a missing session store.
C22_NoServingWithoutSessionStore ==
    /\ pc = "serving" => Store # NilStore
    /\ mw.op = "status" => ~mw.panicked
    /\ last.op = "Callback" => ~last.panicked

\* C23: a callback that called CreateUser and left no document for the
\* asserted email (the insert failed) answers with an error and issues no
\* token, writes no session marker and sets no jwt cookie.
C23_FailedCreateEndsInError ==
    (last.op = "Callback" /\ last.createCalled
        /\ Matching(users, last.req.email) = {})
        => /\ last.status >= 400
           /\ last.token = <<>>
           /\ last.marker = <<>>
           /\ last.cookie = <<>>

C28_RedirectImpliesRecord ==
    (last.op = "Callback" /\ last.status = StatusSeeOther /\ last.token # <<>>)
        => Matching(users, last.req.email) # {}

\* C29: a callback that answered with a 4xx or 5xx status has written no
\* session marker and set no jwt cookie.
C29_ErrorCallbackLeavesNoMarker ==
    (last.op = "Callback" /\ last.status >= 400)
        => (last.marker = <<>> /\ last.cookie = <<>>)

\* C24: a Login with the right password answers 202 with token and cookie
\* whether or not the update of the login time failed, and a failed update
\* changes nothing; the update, at the time of the login or later, changes no
\* field but lastlogin and changes nothing more when it is applied again.
C24_LoginTimeUpdateNonFatal ==
    [][(last' # last /\ last'.op = "Login" /\ last'.found /\ ~last'.storeErr
            /\ Matching(users, last'.req.email) # {}
            /\ users[Min(Matching(users, last'.req.email))].passwdhash
                  = Hash(last'.req.password)) =>
          LET email == last'.req.email
              first == Min(Matching(users, email))
          IN  /\ last'.status = StatusAccepted
              /\ last'.msg = "Successfully LoggedIn"
              /\ last'.token # <<>>
              /\ last'.cookie # <<>>
              /\ last'.updateErr => users' = users
              /\ ~last'.updateErr => users' = UpdateLoginTime(users, email, now, FALSE)
              /\ \A t \in now..(now + 1) :
                    LET u == UpdateLoginTime(users, email, t, FALSE)
                    IN  /\ Len(u) = Len(users)
                        /\ u[first].lastlogin = t
                        /\ \A i \in 1..Len(users) :
                              \A f \in (DOMAIN users[i]) \ {"lastlogin"} :
                                  u[i][f] = users[i][f]
                        /\ \A i \in (1..Len(users)) \ {first} : u[i] = users[i]
                        /\ UpdateLoginTime(u, email, t, FALSE) = u]_vars

\* a Login succeeded although the update of the login time failed
C24_Witness ==
    /\ last.op = "Login"
    /\ last.status = StatusAccepted
    /\ last.updateErr
    /\ last.token # <<>>
    /\ Matching(users, last.req.email) # {}

\* C30: a Login for an email whose document has no passwdhash (one created by
\* the callback) never answers 202 and issues no token and no cookie, whatever
\* the password, the empty one included.
C30_NoPasswordLoginForGoogleUser ==
    [][(last' # last /\ last'.op = "Login" /\ last'.req.valid
            /\ Matching(users, last'.req.email) # {}
            /\ \A i \in Matching(users, last'.req.email) :
                  users[i].passwdhash = "") =>
          /\ last'.status # StatusAccepted
          /\ last'.token = <<>>
          /\ last'.cookie = <<>>
          /\ users' = users]_vars

\* a Login with the empty password for a user created by the callback was
\* answered 400
C30_Witness ==
    /\ last.op = "Login"
    /\ last.req.valid
    /\ last.req.password = ""
    /\ last.found
    /\ last.status = StatusBadRequest
    /\ \E i \in Matching(users, last.req.email) :
          users[i].auth_provider = "google" /\ users[i].passwdhash = ""

C25_StoreCallsHaveDeadline ==
    \A w \in DOMAIN call : call[w] # NoCall => call[w].timeout # NoDeadline
====
